---------------------------- MODULE Spec2Model ----------------------------
(***************************************************************************)
(* A model of salt/modules/yumpkg5.py, the yum package adapter.            *)
(*                                                                         *)
(* Strings are modelled as sequences of atoms: the Python string is the    *)
(* concatenation of the atoms.  The atoms " " and "\n" are the only ones   *)
(* holding whitespace and "." is the only one holding a dot, so that       *)
(* startswith, split, splitlines, rpartition and endswith are modelled by  *)
(* what they do on the atoms.  The empty string is <<>>.                   *)
(*                                                                         *)
(* Versions are 1..MaxVer, ordered as the version comparison orders the    *)
(* version strings they stand for; Malformed is a version string the       *)
(* comparison cannot order, against which it answers None.  NoVersion is   *)
(* the empty version string and Unpinned the None of a target without a    *)
(* version.                                                                *)
(*                                                                         *)
(* The module keeps no state between calls, so a behaviour is one call on  *)
(* what the host holds: Spec is an install call on an rpm database,        *)
(* SpecMaint an upgrade, remove, purge or refresh_db call on one,          *)
(* SpecQuery a query call on a listing yum prints, and SpecRepo a call of  *)
(* the repo-argument builder.  What the yum commands do to the database    *)
(* is not the module's to decide: they may leave any database behind.      *)
(***************************************************************************)
EXTENDS Integers, Sequences, FiniteSets, TLC

VARIABLES
    cpuarch,     \* __grains__['cpuarch'] of the host
    db,          \* the rpm database: snapshot key -> installed version
    yum_stdout,  \* what a "yum -q ..." listing command prints
    pc,          \* "idle" before the call, "done" after it
    call,        \* the operation called and its arguments
    cmds,        \* the external invocations the call issued, in order
    warnings,    \* the log.warning messages the call emitted
    locals,      \* the local variables of the call when it returned
    ret          \* what the call returned

vars == <<cpuarch, db, yum_stdout, pc, call, cmds, warnings, locals, ret>>

-----------------------------------------------------------------------------
(* Bounds and domains *)

MaxVer == 2
MaxTokens == 6
MaxLines == 3

NoVersion == 0
Unpinned == -1

Versions == 1..MaxVer

\* A version string the version comparison cannot parse.
Malformed == MaxVer + 1

\* The version strings a caller may ask for, or the rpm database hold.
VersionStrings == Versions \cup {Malformed}

Foo == <<"foo">>
Foo686 == <<"foo", ".", "i686">>

Bar == <<"bar">>

\* The packages install is asked for, and those the rpm database may hold.
Names == {Foo, Foo686}
AllNames == {Foo, Foo686, Bar}

Archs == {"x86_64", "i386"}

Dbs(names) == [names -> {NoVersion} \cup Versions]

\* The databases install may find, and yum leave behind: a version in
\* them may be malformed.
FoundDbs(names) == [names -> {NoVersion} \cup VersionStrings]

RepoValues == {"", "epel", "base", "updates"}

-----------------------------------------------------------------------------
(* Sequence helpers *)

RECURSIVE Flatten(_)
Flatten(ss) ==
    IF ss = <<>> THEN <<>> ELSE Head(ss) \o Flatten(Tail(ss))

Perms(S) ==
    {s \in [1..Cardinality(S) -> S] : \A x \in S : \E i \in DOMAIN s : s[i] = x}

Range(s) == {s[i] : i \in DOMAIN s}


IndexOf(s, a) ==
    IF \E i \in DOMAIN s : s[i] = a
    THEN CHOOSE i \in DOMAIN s : s[i] = a /\ \A j \in 1..(i - 1) : s[j] # a
    ELSE 0

LastIndexOf(s, a) ==
    IF \E i \in DOMAIN s : s[i] = a
    THEN CHOOSE i \in DOMAIN s : s[i] = a /\ \A j \in (i + 1)..Len(s) : s[j] # a
    ELSE 0

\* str.startswith
StartsWith(s, prefix) ==
    Len(s) >= Len(prefix) /\ SubSeq(s, 1, Len(prefix)) = prefix

\* str.endswith
EndsWith(s, suffix) ==
    Len(s) >= Len(suffix) /\ SubSeq(s, Len(s) - Len(suffix) + 1, Len(s)) = suffix

\* str.splitlines: the lines between the newlines, no last empty line
RECURSIVE SplitLines(_)
SplitLines(text) ==
    IF text = <<>> THEN <<>>
    ELSE LET i == IndexOf(text, "\n")
         IN  IF i = 0 THEN <<text>>
             ELSE <<SubSeq(text, 1, i - 1)>>
                      \o SplitLines(SubSeq(text, i + 1, Len(text)))

\* str.split(): the maximal runs without whitespace
RECURSIVE Split(_)
Split(line) ==
    IF line = <<>> THEN <<>>
    ELSE IF Head(line) = " " THEN Split(Tail(line))
    ELSE LET i == IndexOf(line, " ")
         IN  IF i = 0 THEN <<line>>
             ELSE <<SubSeq(line, 1, i - 1)>>
                      \o Split(SubSeq(line, i + 1, Len(line)))

\* str.rpartition('.')[0]: what precedes the last dot, '' without a dot
RPartitionHead(s) ==
    LET i == LastIndexOf(s, ".")
    IN  IF i = 0 THEN <<>> ELSE SubSeq(s, 1, i - 1)

-----------------------------------------------------------------------------
(* _parse_yum *)

PluginPrefix == <<"Loaded", " ", "plugin">>

YumOut(pkgname, pkgver, pkgstatus) ==
    [name |-> pkgname, version |-> pkgver, status |-> pkgstatus]

\* A parser that takes the first three tokens of a longer line too.
ParseLine_AtLeastThree(line) ==
    IF ~StartsWith(line, PluginPrefix)
    THEN LET toks == Split(line)
         IN  IF Len(toks) >= 3
             THEN <<YumOut(RPartitionHead(toks[1]), toks[2], toks[3])>>
             ELSE <<>>
    ELSE <<>>

\* The body of the loop over the lines: the records one line adds.
ParseLine(line) ==
    IF ~StartsWith(line, PluginPrefix)
    THEN LET toks == Split(line)
         IN  IF Len(toks) = 3
             THEN <<YumOut(RPartitionHead(toks[1]), toks[2], toks[3])>>
             ELSE <<>>
    ELSE <<>>

ParseYumText(out) ==
    LET lines == SplitLines(out)
    IN  Flatten([i \in DOMAIN lines |-> ParseLine(lines[i])])

YumQuery(arg) == [cmd |-> "yum -q", arg |-> arg]

-----------------------------------------------------------------------------
(* _get_repo_options *)

\* The legacy alias taking precedence over fromrepo.
GetRepoOptions_RepoFirst(fromrepo, repo, disablerepo, enablerepo) ==
    LET fr == IF repo # "" THEN repo ELSE fromrepo
    IN  IF fr # ""
        THEN <<"--disablerepo=\"*\" --enablerepo=\"", fr, "\"">>
        ELSE (IF disablerepo # ""
              THEN <<"--disablerepo=\"", disablerepo, "\" ">> ELSE <<>>)
             \o (IF enablerepo # ""
                 THEN <<"--enablerepo=\"", enablerepo, "\" ">> ELSE <<>>)

\* "" stands for an option that is absent, None or the empty string: the
\* code only tests the options' truth.
GetRepoOptions(fromrepo, repo, disablerepo, enablerepo) ==
    LET fr == IF repo # "" /\ fromrepo = "" THEN repo ELSE fromrepo
    IN  IF fr # ""
        THEN <<"--disablerepo=\"*\" --enablerepo=\"", fr, "\"">>
        ELSE (IF disablerepo # ""
              THEN <<"--disablerepo=\"", disablerepo, "\" ">> ELSE <<>>)
             \o (IF enablerepo # ""
                 THEN <<"--enablerepo=\"", enablerepo, "\" ">> ELSE <<>>)

-----------------------------------------------------------------------------
(* refresh_db, latest_version, upgrade_available, list_upgrades *)

CleanCmd == [cmd |-> "yum -q clean dbcache"]

\* refresh_db(): the invocations it issues
RefreshDb == <<CleanCmd>>

DictSet(d, k, v) == [x \in (DOMAIN d) \cup {k} |-> IF x = k THEN v ELSE d[x]]

\* for pkg in updates: ret[pkg.name] = pkg.version
RECURSIVE AssignVersions(_, _)
AssignVersions(d, updates) ==
    IF updates = <<>> THEN d
    ELSE AssignVersions(DictSet(d, Head(updates).name, Head(updates).version),
                        Tail(updates))

\* A latest_version that keeps the first listed version of a name.
LatestVersion_FirstWins(names, out) ==
    IF Len(names) = 0 THEN <<>>
    ELSE LET updates == ParseYumText(out)
             rev == [i \in DOMAIN updates |-> updates[Len(updates) + 1 - i]]
             d == AssignVersions([n \in Range(names) |-> <<>>], rev)
         IN  IF Len(names) = 1 THEN d[names[1]] ELSE d

\* What latest_version(*names) returns when the listing command prints out.
LatestVersion(names, out) ==
    IF Len(names) = 0 THEN <<>>
    ELSE LET d == AssignVersions([n \in Range(names) |-> <<>>],
                                 ParseYumText(out))
         IN  IF Len(names) = 1 THEN d[names[1]] ELSE d

\* The invocations of latest_version(*names, **kwargs).
LatestVersionCmds(names, repo_arg) ==
    IF Len(names) = 0 THEN <<>>
    ELSE <<YumQuery([repo |-> repo_arg, verb |-> "list available",
                     names |-> names])>>

UpgradeAvailable(name, out) == LatestVersion(<<name>>, out) # <<>>

\* dict([(i.name, i.version) for i in out])
ListUpgrades(out) == AssignVersions(<<>>, ParseYumText(out))

-----------------------------------------------------------------------------
(* The listings the query specification draws yum's output from *)

Words == {<<"lib", ".", "so", ".", "i386">>, <<"bar">>}

NoticeHead == <<"Loaded", " ", "plugin", "s:">>

RECURSIVE JoinWords(_)
JoinWords(ws) ==
    IF ws = <<>> THEN <<>>
    ELSE IF Len(ws) = 1 THEN ws[1]
    ELSE ws[1] \o <<" ">> \o JoinWords(Tail(ws))

RenderLine(kind, ws) ==
    IF kind = "plain" THEN JoinWords(ws)
    ELSE (IF kind = "indented" THEN <<" ">> ELSE <<>>)
         \o NoticeHead
         \o (IF ws = <<>> THEN <<>> ELSE <<" ">> \o JoinWords(ws))

\* The lines of at most n tokens, each with its number of tokens.
LinesWithin(n) ==
    {[text |-> RenderLine("plain", ws), toks |-> Len(ws)] :
        ws \in UNION {[1..k -> Words] : k \in 0..n}}
    \cup
    (IF n < 2 THEN {}
     ELSE {[text |-> RenderLine(kind, ws), toks |-> Len(ws) + 2] :
              kind \in {"notice", "indented"},
              ws \in UNION {[1..k -> Words] : k \in 0..(n - 2)}})

\* The texts of at most m lines and n tokens, every line ended by a newline.
RECURSIVE Texts(_, _)
Texts(m, n) ==
    IF m = 0 THEN {<<>>}
    ELSE {<<>>} \cup
         UNION {{l.text \o <<"\n">> \o r : r \in Texts(m - 1, n - l.toks)} :
                   l \in LinesWithin(n)}

QueryNames == {<<"lib", ".", "so">>, <<"lib">>, <<"bar">>}

LatestArgs ==
    {<<>>} \cup {<<n>> : n \in QueryNames} \cup {<<<<"bar">>, <<"lib", ".", "so">>>>}

NoDb == [n \in AllNames |-> NoVersion]

-----------------------------------------------------------------------------
(* The query specification: one query call on one yum output *)

InitQuery ==
    /\ cpuarch = "x86_64"
    /\ db = NoDb
    /\ yum_stdout \in Texts(MaxLines, MaxTokens)
    /\ pc = "idle"
    /\ call = [op |-> "none"]
    /\ cmds = <<>>
    /\ warnings = <<>>
    /\ locals = <<>>
    /\ ret = <<>>

ParseYum ==
    /\ pc = "idle"
    /\ pc' = "done"
    /\ call' = [op |-> "_parse_yum", arg |-> "check-update"]
    /\ cmds' = <<YumQuery("check-update")>>
    /\ ret' = ParseYumText(yum_stdout)
    /\ UNCHANGED <<cpuarch, db, yum_stdout, warnings, locals>>

CallLatestVersion ==
    /\ pc = "idle"
    /\ \E names \in LatestArgs, fromrepo \in {"", "epel"} :
          /\ fromrepo # "" => Len(names) = 1
          /\ call' = [op |-> "latest_version", names |-> names,
                      fromrepo |-> fromrepo]
          /\ cmds' = LatestVersionCmds(names,
                                       GetRepoOptions(fromrepo, "", "", ""))
          /\ ret' = LatestVersion(names, yum_stdout)
    /\ pc' = "done"
    /\ UNCHANGED <<cpuarch, db, yum_stdout, warnings, locals>>

CallUpgradeAvailable ==
    /\ pc = "idle"
    /\ \E name \in QueryNames :
          /\ call' = [op |-> "upgrade_available", name |-> name]
          /\ cmds' = LatestVersionCmds(<<name>>, GetRepoOptions("", "", "", ""))
          /\ ret' = UpgradeAvailable(name, yum_stdout)
    /\ pc' = "done"
    /\ UNCHANGED <<cpuarch, db, yum_stdout, warnings, locals>>

CallListUpgrades ==
    /\ pc = "idle"
    /\ \E refresh \in BOOLEAN :
          /\ call' = [op |-> "list_upgrades", refresh |-> refresh]
          /\ cmds' = (IF refresh THEN RefreshDb ELSE <<>>)
                        \o <<YumQuery("check-update")>>
          /\ ret' = ListUpgrades(yum_stdout)
    /\ pc' = "done"
    /\ UNCHANGED <<cpuarch, db, yum_stdout, warnings, locals>>

NextQuery ==
    \/ ParseYum
    \/ CallLatestVersion
    \/ CallUpgradeAvailable
    \/ CallListUpgrades

SpecQuery == InitQuery /\ [][NextQuery]_vars

-----------------------------------------------------------------------------
(* The repo-argument specification: one call of _get_repo_options *)

InitRepo ==
    /\ cpuarch = "x86_64"
    /\ db = NoDb
    /\ yum_stdout = <<>>
    /\ pc = "idle"
    /\ call = [op |-> "none"]
    /\ cmds = <<>>
    /\ warnings = <<>>
    /\ locals = <<>>
    /\ ret = <<>>

CallGetRepoOptions ==
    /\ pc = "idle"
    /\ \E fromrepo \in RepoValues, repo \in RepoValues,
          disablerepo \in RepoValues, enablerepo \in RepoValues :
          /\ call' = [op |-> "_get_repo_options", fromrepo |-> fromrepo,
                      repo |-> repo, disablerepo |-> disablerepo,
                      enablerepo |-> enablerepo]
          /\ ret' = GetRepoOptions(fromrepo, repo, disablerepo, enablerepo)
    /\ pc' = "done"
    /\ UNCHANGED <<cpuarch, db, yum_stdout, cmds, warnings, locals>>

NextRepo == CallGetRepoOptions

SpecRepo == InitRepo /\ [][NextRepo]_vars

-----------------------------------------------------------------------------
(* Properties of the parser and the queries, under SpecQuery *)

Parsed == pc = "done" /\ call.op = "_parse_yum"

ListedLines == SplitLines(yum_stdout)

\* The lines that do not begin with the plugin notice and split into
\* exactly three tokens.
AcceptedLines ==
    {i \in DOMAIN ListedLines :
        /\ ~StartsWith(ListedLines[i], PluginPrefix)
        /\ Len(Split(ListedLines[i])) = 3}

\* The place in the result of the record of accepted line i.
RecordOf(i) == Cardinality({j \in AcceptedLines : j <= i})

\* C10: the parser returns exactly one record per line that does not begin
\* with the plugin-notice prefix and splits into exactly three tokens, in
\* input order, with version and status the second and third tokens; every
\* other line yields no record.
C10_OneRecordPerAcceptedLine ==
    Parsed =>
        /\ Len(ret) = Cardinality(AcceptedLines)
        /\ \A i \in AcceptedLines :
              /\ ret[RecordOf(i)].version = Split(ListedLines[i])[2]
              /\ ret[RecordOf(i)].status = Split(ListedLines[i])[3]

\* A record was returned for one line, while a three-token line beginning
\* with the plugin notice and a blank line were skipped.
C10_Witness ==
    /\ Parsed
    /\ Len(ret) = 1
    /\ \E i \in DOMAIN ListedLines :
          /\ StartsWith(ListedLines[i], PluginPrefix)
          /\ Len(Split(ListedLines[i])) = 3
    /\ \E i \in DOMAIN ListedLines : ListedLines[i] = <<>>

\* The name the claim gives a name-arch token: the token without its last
\* dot-delimited segment, the whole token when it holds no dot.
ClaimedName(namearch) ==
    IF LastIndexOf(namearch, ".") = 0 THEN namearch
    ELSE SubSeq(namearch, 1, LastIndexOf(namearch, ".") - 1)

\* C7: for every accepted line the record's name is the name-arch token
\* with its last dot-delimited segment removed, and the whole token when the
\* token contains no dot.
C7_NameDropsLastSegment ==
    Parsed =>
        \A i \in AcceptedLines :
            ret[RecordOf(i)].name = ClaimedName(Split(ListedLines[i])[1])

\* The accepted records of the listing whose name is the requested one.
Matching(name) ==
    LET recs == ParseYumText(yum_stdout)
    IN  {k \in DOMAIN recs : recs[k].name = name}

LastMatching(name) ==
    CHOOSE k \in Matching(name) : \A j \in Matching(name) : j <= k

\* C6: upgrade_available(name) is true iff the listing holds an accepted
\* record whose derived name equals the requested name, no query of the
\* installed packages is issued, and latest_version(name) returns the
\* version of the last such record, or the empty string without one.
C6_UpgradeAvailableIffListed ==
    /\ (pc = "done" /\ call.op = "upgrade_available") =>
          /\ ret = (Matching(call.name) # {})
          /\ \A i \in DOMAIN cmds : cmds[i].cmd = "yum -q"
    /\ (pc = "done" /\ call.op = "latest_version" /\ Len(call.names) = 1) =>
          /\ ret = IF Matching(call.names[1]) = {} THEN <<>>
                   ELSE ParseYumText(yum_stdout)[LastMatching(call.names[1])].version
          /\ \A i \in DOMAIN cmds : cmds[i].cmd = "yum -q"

\* latest_version(name) was called on a listing with two records of that
\* name and different versions.
C6_Witness ==
    /\ pc = "done"
    /\ call.op = "latest_version"
    /\ Len(call.names) = 1
    /\ \E j, k \in Matching(call.names[1]) :
          ParseYumText(yum_stdout)[j].version # ParseYumText(yum_stdout)[k].version

-----------------------------------------------------------------------------
(* Properties of the repo-argument builder, under SpecRepo *)

RestrictTo(r) == <<"--disablerepo=\"*\" --enablerepo=\"", r, "\"">>

DisableToken(r) == <<"--disablerepo=\"", r, "\" ">>

EnableToken(r) == <<"--enablerepo=\"", r, "\" ">>

\* C9: with fromrepo set, or fromrepo unset and the alias repo set, the
\* repo arguments disable all repos and enable exactly that repo (fromrepo
\* when both are set), whatever enablerepo and disablerepo are; otherwise
\* they are the disable token of disablerepo if set, then the enable token of
\* enablerepo if set, and empty when neither is set.
C9_RepoArguments ==
    (pc = "done" /\ call.op = "_get_repo_options") =>
        /\ call.fromrepo # "" => ret = RestrictTo(call.fromrepo)
        /\ (call.fromrepo = "" /\ call.repo # "") => ret = RestrictTo(call.repo)
        /\ (call.fromrepo = "" /\ call.repo = "") =>
              ret = (IF call.disablerepo # ""
                     THEN DisableToken(call.disablerepo) ELSE <<>>)
                    \o (IF call.enablerepo # ""
                        THEN EnableToken(call.enablerepo) ELSE <<>>)

\* fromrepo and repo are both set and differ, enablerepo and disablerepo too.
C9_Witness ==
    /\ pc = "done"
    /\ call.op = "_get_repo_options"
    /\ call.fromrepo # ""
    /\ call.repo # ""
    /\ call.repo # call.fromrepo
    /\ call.enablerepo # ""
    /\ call.disablerepo # ""

-----------------------------------------------------------------------------
(* list_pkgs and the version comparison *)

RpmQuery == [cmd |-> "rpm -qa"]

\* list_pkgs(): the dict of the installed packages, name -> version.  The
\* database is keyed as list_pkgs keys its result (a 32-bit package on a
\* 64-bit host under <name>.i686).
ListPkgs(d) == [n \in {m \in DOMAIN d : d[m] # NoVersion} |-> d[n]]

\* dict.get(key, '')
Get(d, k) == IF k \in DOMAIN d THEN d[k] ELSE NoVersion

\* The None perform_cmp returns when there was a problem making the
\* comparison.
CmpNone == 2

\* pkg_resource.perform_cmp: -1 if pkg1 < pkg2, 0 if pkg1 == pkg2, 1 if
\* pkg1 > pkg2, and None if a version could not be parsed
PerformCmp(pkg1, pkg2) ==
    IF pkg1 \notin Versions \/ pkg2 \notin Versions THEN CmpNone
    ELSE IF pkg1 < pkg2 THEN -1
    ELSE IF pkg1 = pkg2 THEN 0
    ELSE 1

\* pkg_resource.compare: whether the comparison answers as oper asks; an
\* undefined comparison satisfies no operator
Compare(pkg1, oper, pkg2) ==
    LET c == PerformCmp(pkg1, pkg2)
    IN  CASE c = CmpNone -> FALSE
          [] oper = "==" -> c = 0
          [] oper = "!=" -> c # 0
          [] oper = "<"  -> c = -1
          [] oper = "<=" -> c \in {-1, 0}
          [] oper = ">"  -> c = 1
          [] oper = ">=" -> c \in {0, 1}

\* pkg_resource.find_changes(old, new): the change set of two snapshots
FindChanges(old, new) ==
    [n \in {m \in DOMAIN new : m \notin DOMAIN old \/ old[m] # new[m]} |->
        [old |-> Get(old, n), new |-> new[n]]]

-----------------------------------------------------------------------------
(* install *)

NoneParams == [type |-> "none", dict |-> <<>>, list |-> <<>>]

RepositoryParams(d) == [type |-> "repository", dict |-> d, list |-> <<>>]

FileParams(l) == [type |-> "file", dict |-> <<>>, list |-> l]

\* pkg_resource.parse_targets(name, pkgs, sources): the results it may give.
\* pkgs holds pairs <<name, version or Unpinned>> of different names,
\* sources holds paths.  When nothing is requested it answers None or an
\* empty collection.
ParseTargets(name, pkgs, sources) ==
    IF pkgs.items # <<>>
    THEN {RepositoryParams([n \in {it[1] : it \in Range(pkgs.items)} |->
              (CHOOSE it \in Range(pkgs.items) : it[1] = n)[2]])}
    ELSE IF sources.items # <<>>
    THEN {FileParams(sources.items)}
    ELSE IF name # <<>>
    THEN {RepositoryParams([n \in {name} |-> Unpinned])}
    ELSE {NoneParams, RepositoryParams(<<>>)}

\* An early return that is taken for None only.
NoTargets_NoneOnly(pp) == pp.type = "none"

\* pkg_params is None or len(pkg_params) == 0
NoTargets(pp) ==
    \/ pp.type = "none"
    \/ pp.type = "repository" /\ DOMAIN pp.dict = {}
    \/ pp.type = "file" /\ pp.list = <<>>

IgnoredVersionWarning ==
    "\"version\" parameter will be ignored for muliple package targets"

\* A fold of the version option that does not look at pkgs and sources.
FoldVersion_Always(name, version, pkgs, sources, pp) ==
    IF version \notin {Unpinned, NoVersion}
    THEN [params |-> RepositoryParams([n \in {name} |-> version]),
          warnings |-> <<>>]
    ELSE [params |-> pp, warnings |-> <<>>]

\* version = kwargs.get('version') and what follows from it: the targets
\* and the warnings logged.  Unpinned stands for an absent version option.
FoldVersion(name, version, pkgs, sources, pp) ==
    IF version \notin {Unpinned, NoVersion}
    THEN IF ~pkgs.given /\ ~sources.given
         THEN [params |-> [pp EXCEPT !.dict = [n \in {name} |-> version]],
               warnings |-> <<>>]
         ELSE [params |-> pp, warnings |-> <<IgnoredVersionWarning>>]
    ELSE [params |-> pp, warnings |-> <<>>]

I686 == <<".", "i686">>

\* A string given to yum as it is: a package name or a file.
Bare(s) == [name |-> s, version |-> Unpinned, arch |-> <<>>]

\* pkgstr, the string '"<name>-<version><arch>"'
PkgStr(pkgname, version, arch) ==
    IF arch = "x86_64" /\ EndsWith(pkgname, I686)
    THEN [name |-> SubSeq(pkgname, 1, Len(pkgname) - Len(I686)),
          version |-> version, arch |-> I686]
    ELSE [name |-> pkgname, version |-> version, arch |-> <<>>]

\* A test that sends a request for the installed version to downgrade.
IsInstallTarget_Strict(version, cver) ==
    cver = NoVersion \/ Compare(version, ">", cver)

\* not cver or compare(pkg1=version, oper='>=', pkg2=cver)
IsInstallTarget(version, cver) ==
    cver = NoVersion \/ Compare(version, ">=", cver)

\* The loop over pkg_params.iteritems(), the items taken in `order`.
RECURSIVE Buckets(_, _, _, _)
Buckets(order, dict, old, arch) ==
    IF order = <<>> THEN [targets |-> <<>>, downgrade |-> <<>>]
    ELSE LET pkgname == Head(order)
             version == dict[pkgname]
             rest == Buckets(Tail(order), dict, old, arch)
         IN  IF version = Unpinned
             THEN [rest EXCEPT !.targets = <<Bare(pkgname)>> \o @]
             ELSE IF IsInstallTarget(version, Get(old, pkgname))
             THEN [rest EXCEPT
                      !.targets = <<PkgStr(pkgname, version, arch)>> \o @]
             ELSE [rest EXCEPT
                      !.downgrade = <<PkgStr(pkgname, version, arch)>> \o @]

YumCmd(verb, repo_arg, skip_verify, pkg) ==
    [cmd |-> verb, repo |-> repo_arg,
     gpgcheck |-> IF skip_verify THEN "--nogpgcheck" ELSE "", pkg |-> pkg]

\* An install that downgrades before it installs.
InstallCmds_DowngradeFirst(refresh, repo_arg, skip_verify, targets, downgrade) ==
    (IF refresh THEN RefreshDb ELSE <<>>)
    \o <<RpmQuery>>
    \o (IF downgrade # <<>>
        THEN <<YumCmd("yum -y downgrade", repo_arg, skip_verify, downgrade)>>
        ELSE <<>>)
    \o (IF targets # <<>>
        THEN <<YumCmd("yum -y install", repo_arg, skip_verify, targets)>>
        ELSE <<>>)
    \o <<RpmQuery>>

\* The invocations of an install call that has targets, in order.
InstallCmds(refresh, repo_arg, skip_verify, targets, downgrade) ==
    (IF refresh THEN RefreshDb ELSE <<>>)
    \o <<RpmQuery>>
    \o (IF targets # <<>>
        THEN <<YumCmd("yum -y install", repo_arg, skip_verify, targets)>>
        ELSE <<>>)
    \o (IF downgrade # <<>>
        THEN <<YumCmd("yum -y downgrade", repo_arg, skip_verify, downgrade)>>
        ELSE <<>>)
    \o <<RpmQuery>>

\* targets = pkg_params, for files
FileTargets(list) == [i \in DOMAIN list |-> Bare(list[i])]

\* The orders in which the items of pkg_params may be iterated.
Orders(pp) ==
    IF pp.type = "repository" THEN Perms(DOMAIN pp.dict) ELSE {<<>>}

PinValues == {Unpinned} \cup VersionStrings

NotGiven == [given |-> FALSE, items |-> <<>>]

PkgsArgs ==
    {NotGiven, [given |-> TRUE, items |-> <<>>]}
    \cup {[given |-> TRUE, items |-> <<<<n, p>>>>] :
             n \in Names, p \in PinValues}
    \cup {[given |-> TRUE, items |-> <<<<Foo, p>>, <<Foo686, q>>>>] :
             p \in PinValues, q \in PinValues}

SourcesArgs == {NotGiven, [given |-> TRUE, items |-> <<<<"/tmp/foo.rpm">>>>]}

NameArgs == {<<>>, Foo, Foo686}

-----------------------------------------------------------------------------
(* The install specification: one install call on one rpm database *)

Init ==
    /\ cpuarch \in Archs
    /\ db \in FoundDbs(Names)
    /\ yum_stdout = <<>>
    /\ pc = "idle"
    /\ call = [op |-> "none"]
    /\ cmds = <<>>
    /\ warnings = <<>>
    /\ locals = <<>>
    /\ ret = <<>>

\* The ways install is called here: fromrepo may be set, and GPG
\* verification skipped.
InstallOptions ==
    {[fromrepo |-> "", skip_verify |-> FALSE],
     [fromrepo |-> "epel", skip_verify |-> FALSE],
     [fromrepo |-> "", skip_verify |-> TRUE]}

\* install(name, refresh, fromrepo, skip_verify, pkgs, sources, version=...)
\* when parse_targets answers pp; the yum commands leave the database as
\* they will.
InstallCall(name, refresh, fromrepo, skip_verify, pkgs, sources, version, pp) ==
    /\ call' = [op |-> "install", name |-> name, refresh |-> refresh,
                fromrepo |-> fromrepo, skip_verify |-> skip_verify,
                pkgs |-> pkgs, sources |-> sources, version |-> version]
    /\ IF NoTargets(pp)
       THEN /\ cmds' = IF refresh THEN RefreshDb ELSE <<>>
            /\ warnings' = <<>>
            /\ locals' = [parsed |-> pp, pkg_params |-> pp,
                          old |-> <<>>, new |-> <<>>,
                          targets |-> <<>>, downgrade |-> <<>>]
            /\ ret' = <<>>
            /\ db' = db
       ELSE LET fv == FoldVersion(name, version, pkgs, sources, pp)
                params == fv.params
                old == ListPkgs(db)
            IN  \E order \in Orders(params) :
                   LET b == IF params.type = "repository"
                            THEN Buckets(order, params.dict, old, cpuarch)
                            ELSE [targets |-> FileTargets(params.list),
                                  downgrade |-> <<>>]
                   IN  \E after \in IF b.targets # <<>> \/ b.downgrade # <<>>
                                    THEN FoundDbs(Names) ELSE {db} :
                          /\ cmds' = InstallCmds(refresh,
                                        GetRepoOptions(fromrepo, "", "", ""),
                                        skip_verify, b.targets, b.downgrade)
                          /\ warnings' = fv.warnings
                          /\ locals' = [parsed |-> pp, pkg_params |-> params,
                                        old |-> old, new |-> ListPkgs(after),
                                        targets |-> b.targets,
                                        downgrade |-> b.downgrade]
                          /\ ret' = FindChanges(old, ListPkgs(after))
                          /\ db' = after

Install ==
    /\ pc = "idle"
    /\ \E name \in NameArgs, refresh \in BOOLEAN, opts \in InstallOptions,
          pkgs \in PkgsArgs, sources \in SourcesArgs, version \in PinValues :
          \* one of pkgs and sources at most; beside pkgs no name, or foo;
          \* beside two pkgs no name, and no version or the newest
          /\ pkgs.items = <<>> \/ sources.items = <<>>
          /\ pkgs.given => name \in {<<>>, Foo}
          /\ (pkgs.given /\ pkgs.items = <<>>) => name = <<>>
          /\ Len(pkgs.items) > 1 =>
                (name = <<>> /\ version \in {Unpinned, MaxVer})
          /\ \E pp \in ParseTargets(name, pkgs, sources) :
                InstallCall(name, refresh, opts.fromrepo, opts.skip_verify,
                            pkgs, sources, version, pp)
    /\ pc' = "done"
    /\ UNCHANGED <<cpuarch, yum_stdout>>

Next == Install

Spec == Init /\ [][Next]_vars

-----------------------------------------------------------------------------
(* Properties of install, under Spec *)

Installed == pc = "done" /\ call.op = "install"

\* Target resolution gave nothing: None or an empty collection.
YieldsNothing(pp) ==
    pp.type = "none" \/ (DOMAIN pp.dict = {} /\ pp.list = <<>>)

VersionGiven == call.version \notin {Unpinned, NoVersion}

InSeq(x, seq) == \E i \in DOMAIN seq : seq[i] = x

\* The version-pinned repository targets of the call.
PinnedTargets ==
    IF locals.pkg_params.type = "repository"
    THEN {n \in DOMAIN locals.pkg_params.dict :
             locals.pkg_params.dict[n] # Unpinned}
    ELSE {}

Requested(n) == locals.pkg_params.dict[n]

InstalledBefore(n) == Get(locals.old, n)

InInstallBucket(n) ==
    InSeq(PkgStr(n, Requested(n), cpuarch), locals.targets)

InDowngradeBucket(n) ==
    InSeq(PkgStr(n, Requested(n), cpuarch), locals.downgrade)

\* Whether the version comparison can order the two version strings.
Comparable(a, b) == a \in Versions /\ b \in Versions

\* C1 as claimed: a pinned target is in the install bucket iff nothing is
\* installed or the installed version is strictly less than the requested
\* one, and in the downgrade bucket iff the installed version is greater
\* than or equal to it; it is in exactly one of the two.
C1_Claimed_EqualGoesToDowngrade ==
    (Installed /\ ~YieldsNothing(locals.parsed)) =>
        \A n \in PinnedTargets :
            /\ InInstallBucket(n) <=>
                  (InstalledBefore(n) = NoVersion
                      \/ (Comparable(InstalledBefore(n), Requested(n))
                             /\ InstalledBefore(n) < Requested(n)))
            /\ InDowngradeBucket(n) <=>
                  (InstalledBefore(n) # NoVersion
                      /\ Comparable(InstalledBefore(n), Requested(n))
                      /\ InstalledBefore(n) >= Requested(n))
            /\ InInstallBucket(n) # InDowngradeBucket(n)

\* C1, amended: a pinned target is in the install bucket iff nothing is
\* installed or the comparison answers that the requested version is
\* greater than or equal to the installed one, which it does when it can
\* order the two and the installed version is less than or equal to the
\* requested one; it is in the downgrade bucket iff a version is installed
\* and the comparison does not answer so, which is when the installed
\* version is strictly greater or the comparison is undefined; it is in
\* exactly one of the two.
C1_EqualGoesToInstall ==
    (Installed /\ ~YieldsNothing(locals.parsed)) =>
        \A n \in PinnedTargets :
            /\ InInstallBucket(n) <=>
                  (InstalledBefore(n) = NoVersion
                      \/ (Comparable(InstalledBefore(n), Requested(n))
                             /\ InstalledBefore(n) <= Requested(n)))
            /\ InDowngradeBucket(n) <=>
                  (InstalledBefore(n) # NoVersion
                      /\ (~Comparable(InstalledBefore(n), Requested(n))
                             \/ InstalledBefore(n) > Requested(n)))
            /\ InInstallBucket(n) # InDowngradeBucket(n)

\* One pinned target asks for the version that is installed, and another
\* for a version the comparison cannot order against the installed one.
C1_Witness ==
    /\ Installed
    /\ ~YieldsNothing(locals.parsed)
    /\ \E n \in PinnedTargets :
          /\ Comparable(InstalledBefore(n), Requested(n))
          /\ InstalledBefore(n) = Requested(n)
          /\ InInstallBucket(n)
    /\ \E n \in PinnedTargets :
          /\ InstalledBefore(n) # NoVersion
          /\ ~Comparable(InstalledBefore(n), Requested(n))
          /\ InDowngradeBucket(n)

\* C2 as claimed: when target resolution yields nothing, install returns an
\* empty result and has issued no external invocation at all, whatever the
\* refresh flag.
C2_Claimed_NoInvocationAtAll ==
    (Installed /\ YieldsNothing(locals.parsed)) =>
        ret = <<>> /\ cmds = <<>>

\* C2, amended: when target resolution yields nothing, install returns an
\* empty result and has issued no snapshot query and no yum install or
\* downgrade; the cache clean is issued, once, exactly when refresh is set.
C2_OnlyTheCacheClean ==
    (Installed /\ YieldsNothing(locals.parsed)) =>
        /\ ret = <<>>
        /\ cmds = IF call.refresh THEN <<CleanCmd>> ELSE <<>>

\* Nothing was requested, parse_targets gave an empty collection and refresh
\* was set.
C2_Witness ==
    /\ Installed
    /\ locals.parsed.type = "repository"
    /\ YieldsNothing(locals.parsed)
    /\ call.refresh
    /\ cmds = <<CleanCmd>>

Executed ==
    /\ Len(cmds) >= 2
    /\ \E i \in DOMAIN cmds :
          cmds[i].cmd \in {"yum -y install", "yum -y downgrade"}

\* C5 as claimed: with a version option and neither pkgs nor sources, the
\* targets become the single pair (name, version) of the name supplied,
\* without a warning; with a version option and pkgs or sources, the targets
\* stay as resolved, a warning is emitted and the call executes.
C5_Claimed_VersionFold ==
    (Installed /\ VersionGiven) =>
        IF ~call.pkgs.given /\ ~call.sources.given
        THEN call.name # <<>> =>
                /\ locals.pkg_params.type = "repository"
                /\ locals.pkg_params.dict =
                      [n \in {call.name} |-> call.version]
                /\ warnings = <<>>
        ELSE /\ locals.pkg_params = locals.parsed
             /\ warnings = <<IgnoredVersionWarning>>
             /\ Executed

\* C5, amended: the same, for the calls whose target resolution yields at
\* least one target.
C5_VersionFoldWhenResolved ==
    (Installed /\ VersionGiven /\ ~YieldsNothing(locals.parsed)) =>
        IF ~call.pkgs.given /\ ~call.sources.given
        THEN /\ locals.pkg_params.type = "repository"
             /\ locals.pkg_params.dict = [n \in {call.name} |-> call.version]
             /\ warnings = <<>>
        ELSE /\ locals.pkg_params = locals.parsed
             /\ warnings = <<IgnoredVersionWarning>>
             /\ Executed

\* A version option came with a pinned pkgs list and a name: the warning
\* was logged and the pkgs list was installed as resolved.
C5_Witness ==
    /\ Installed
    /\ VersionGiven
    /\ call.pkgs.given
    /\ call.name = Foo
    /\ DOMAIN locals.parsed.dict = {Foo686}
    /\ locals.parsed.dict[Foo686] \notin {Unpinned, call.version}
    /\ warnings = <<IgnoredVersionWarning>>
    /\ Executed

CmdNames == [i \in DOMAIN cmds |-> cmds[i].cmd]

\* C8: an install call that resolves a target issues, in this order and
\* nothing else: the cache clean (only with refresh), the before-snapshot
\* query, yum install (only with a non-empty install bucket, and of that
\* bucket), yum downgrade (only with a non-empty downgrade bucket, and of
\* that bucket), the after-snapshot query; it returns the change set of the
\* two snapshots.
C8_InvocationOrder ==
    (Installed /\ ~YieldsNothing(locals.parsed)) =>
        /\ CmdNames =
              (IF call.refresh THEN <<"yum -q clean dbcache">> ELSE <<>>)
              \o <<"rpm -qa">>
              \o (IF locals.targets # <<>> THEN <<"yum -y install">> ELSE <<>>)
              \o (IF locals.downgrade # <<>>
                  THEN <<"yum -y downgrade">> ELSE <<>>)
              \o <<"rpm -qa">>
        /\ \A i \in DOMAIN cmds :
              /\ cmds[i].cmd = "yum -y install" => cmds[i].pkg = locals.targets
              /\ cmds[i].cmd = "yum -y downgrade" =>
                    cmds[i].pkg = locals.downgrade
        /\ locals.new = ListPkgs(db)
        /\ ret = FindChanges(locals.old, locals.new)

\* A call with refresh set and both buckets filled issued all five
\* invocations and returned a change.
C8_Witness ==
    /\ Installed
    /\ call.refresh
    /\ locals.targets # <<>>
    /\ locals.downgrade # <<>>
    /\ Len(cmds) = 5
    /\ DOMAIN ret # {}

-----------------------------------------------------------------------------
(* upgrade, remove, purge *)

\* A change set that reports the removed packages too.
UpgradeChanges_WithRemoved(old, new) ==
    [n \in {m \in (DOMAIN new) \cup (DOMAIN old) :
               m \notin DOMAIN old \/ m \notin DOMAIN new \/ old[m] # new[m]} |->
        [old |-> Get(old, n), new |-> Get(new, n)]]

\* The loop of upgrade over the packages of the new snapshot.
UpgradeChanges(old, new) ==
    [n \in {m \in DOMAIN new : m \notin DOMAIN old \/ old[m] # new[m]} |->
        IF n \in DOMAIN old
        THEN [old |-> old[n], new |-> new[n]]
        ELSE [old |-> NoVersion, new |-> new[n]]]

\* A list of the removed packages that holds the changed ones too.
ListRemoved_OrChanged(order, old, new) ==
    SelectSeq(order, LAMBDA pkg : pkg \notin DOMAIN new \/ new[pkg] # old[pkg])

\* _list_removed(old, new), old iterated in `order`
ListRemoved(order, old, new) ==
    SelectSeq(order, LAMBDA pkg : pkg \notin DOMAIN new)

UpgradeCmd == [cmd |-> "yum -q -y upgrade"]

RemoveCmd(pkg) == [cmd |-> "yum -q -y remove", pkg |-> pkg]

-----------------------------------------------------------------------------
(* The maintenance specification: one upgrade, remove, purge or refresh_db
   call on one rpm database *)

InitMaint ==
    /\ cpuarch = "x86_64"
    /\ db \in Dbs(AllNames)
    /\ yum_stdout = <<>>
    /\ pc = "idle"
    /\ call = [op |-> "none"]
    /\ cmds = <<>>
    /\ warnings = <<>>
    /\ locals = <<>>
    /\ ret = <<>>

CallRefreshDb ==
    /\ pc = "idle"
    /\ pc' = "done"
    /\ call' = [op |-> "refresh_db"]
    /\ cmds' = RefreshDb
    /\ ret' = TRUE
    /\ UNCHANGED <<cpuarch, db, yum_stdout, warnings, locals>>

Upgrade ==
    /\ pc = "idle"
    /\ \E refresh \in BOOLEAN, after \in Dbs(AllNames) :
          /\ call' = [op |-> "upgrade", refresh |-> refresh]
          /\ cmds' = (IF refresh THEN RefreshDb ELSE <<>>)
                        \o <<RpmQuery, UpgradeCmd, RpmQuery>>
          /\ locals' = [old |-> ListPkgs(db), new |-> ListPkgs(after)]
          /\ ret' = UpgradeChanges(ListPkgs(db), ListPkgs(after))
          /\ db' = after
    /\ pc' = "done"
    /\ UNCHANGED <<cpuarch, yum_stdout, warnings>>

\* remove(pkg), called as `op`: purge(pkg) is remove(pkg)
RemoveCall(op, pkg) ==
    /\ pc = "idle"
    /\ \E after \in Dbs(AllNames), order \in Perms(DOMAIN ListPkgs(db)) :
          /\ call' = [op |-> op, pkg |-> pkg]
          /\ cmds' = <<RpmQuery, RemoveCmd(pkg), RpmQuery>>
          /\ locals' = [old |-> ListPkgs(db), old_order |-> order,
                        new |-> ListPkgs(after)]
          /\ ret' = ListRemoved(order, ListPkgs(db), ListPkgs(after))
          /\ db' = after
    /\ pc' = "done"
    /\ UNCHANGED <<cpuarch, yum_stdout, warnings>>

Remove == \E pkg \in AllNames : RemoveCall("remove", pkg)

Purge == \E pkg \in AllNames : RemoveCall("purge", pkg)

NextMaint ==
    \/ CallRefreshDb
    \/ Upgrade
    \/ Remove
    \/ Purge

SpecMaint == InitMaint /\ [][NextMaint]_vars

-----------------------------------------------------------------------------
(* Properties of upgrade, remove and purge, under SpecMaint *)

Upgraded == pc = "done" /\ call.op = "upgrade"

\* C3: upgrade returns a change set whose keys are exactly the names of the
\* after-snapshot that are absent from the before-snapshot or have another
\* version there, each with {old: before-version or '', new: after-version};
\* names only in the before-snapshot are no keys, and equal snapshots give
\* an empty change set.
C3_UpgradeChangeSet ==
    Upgraded =>
        /\ locals.new = ListPkgs(db)
        /\ DOMAIN ret = {n \in DOMAIN locals.new :
                            n \notin DOMAIN locals.old
                               \/ locals.old[n] # locals.new[n]}
        /\ \A n \in DOMAIN ret :
              /\ ret[n].new = locals.new[n]
              /\ ret[n].old = IF n \in DOMAIN locals.old
                              THEN locals.old[n] ELSE NoVersion
        /\ \A n \in (DOMAIN locals.old) \ (DOMAIN locals.new) :
              n \notin DOMAIN ret
        /\ locals.old = locals.new => DOMAIN ret = {}

\* An upgrade that installed one package, changed another and removed a
\* third.
C3_Witness ==
    /\ Upgraded
    /\ \E n \in DOMAIN ret : n \notin DOMAIN locals.old
    /\ \E n \in DOMAIN ret : n \in DOMAIN locals.old
    /\ \E n \in DOMAIN locals.old : n \notin DOMAIN locals.new

Removed == pc = "done" /\ call.op \in {"remove", "purge"}

PlaceIn(seq, x) == CHOOSE i \in DOMAIN seq : seq[i] = x

\* C4: remove and purge return exactly the names that are keys of the
\* before-snapshot and not of the after-snapshot, each once and in the
\* before-snapshot's iteration order; a name still present with another
\* version is not returned, and purge returns what remove returns.
C4_RemovedNames ==
    Removed =>
        /\ locals.new = ListPkgs(db)
        /\ Range(ret) = (DOMAIN locals.old) \ (DOMAIN locals.new)
        /\ \A i, j \in DOMAIN ret :
              i < j => /\ ret[i] # ret[j]
                       /\ PlaceIn(locals.old_order, ret[i])
                             < PlaceIn(locals.old_order, ret[j])
        /\ \A n \in DOMAIN locals.new : ~InSeq(n, ret)

\* A purge that removed two packages and left a third with another version.
C4_Witness ==
    /\ Removed
    /\ call.op = "purge"
    /\ Len(ret) = 2
    /\ \E n \in DOMAIN locals.new :
          n \in DOMAIN locals.old /\ locals.old[n] # locals.new[n]

=============================================================================
